---- MODULE Spec2Model ----
(***************************************************************************)
(* Agentic RAG System: a model of the citation grouping of the chat        *)
(* client (App, "Verified References") and of the query pipeline of the    *)
(* design document (retrieval, context assembly, ordered provider          *)
(* fallback, event stream).                                                *)
(*                                                                         *)
(* Strings are sequences of one-character strings, so that the regular    *)
(* expressions, trim, split and the numeric conversion of the source are   *)
(* computed character by character.                                        *)
(***************************************************************************)
EXTENDS Integers, Sequences, FiniteSets, TLC

VARIABLES
    sources,      \* msg.sources: the raw citation strings of one message
    idx,          \* number of citations the forEach has processed
    grouped,      \* groupedSources: own entries in creation order
    parsed,       \* the locals (filename, page) at the end of each iteration
    pc,           \* "grouping" | "rendered" | "threw"
    display,      \* the rendered cards: filename, sorted pages, label
    files,        \* App: the displayed document list
    input,        \* App: the question being typed
    isThinking,   \* App: a chat request is in flight
    messages,     \* App: the conversation
    endpoint,     \* the request being served: "none" | "/chat" | "/chat/stream"
    queries,      \* number of queries started so far
    geminiAvailable, \* "Gemini API available?" of the provider strategy
    retrieval,    \* "none" | "running" | "done"
    assembly,     \* "none" | "running" | "done"
    attempts,     \* GenerationAttempt: [provider, outcome] in order of start
    result,       \* "none" | the provider whose text is returned | AllProvidersFailed
    increments,   \* number of text increments of the generated answer
    events,       \* the events sent on the stream so far
    chatHistory,  \* localStorage item 'chatHistory': NoItem or the saved JSON
    uploadStatus, \* App: "idle" | "uploading" | "success" | "error"
    filesLoading, \* App: the document list is being loaded
    alerted,      \* the latest alert() or confirm() dialog (NoAlert before the first)
    pending,      \* the document requests in flight and the timers set
    stored,       \* server: the filenames of the ingested documents
    corpus,       \* retrieval: the distances of the stored segments to the query
    threshold,    \* retrieval: relevanceThreshold, in tenths
    candidates,   \* retrieval: the output of the latest search
    previous,     \* retrieval: the output of the search before it
    text,         \* chunker: the input text
    pieces,       \* chunker: the output pieces
    variant       \* which App is mounted: "part_000" | "part_001" | "react-ui"

citeVars == <<sources, idx, grouped, parsed, pc, display>>

appVars == <<files, input, isThinking, messages>>

queryVars == <<endpoint, queries, geminiAvailable, retrieval, assembly,
               attempts, result, increments, events>>

uploadVars == <<uploadStatus, filesLoading, alerted, pending, stored>>

clientVars == <<chatHistory, uploadStatus, filesLoading, alerted,
                pending, stored>>

chatVars == <<input, isThinking, messages, chatHistory>>

searchVars == <<corpus, threshold, candidates, previous>>

chunkVars == <<text, pieces>>

coreVars == <<corpus, threshold, candidates, previous, text, pieces, variant>>

vars == <<sources, idx, grouped, parsed, pc, display,
          files, input, isThinking, messages,
          endpoint, queries, geminiAvailable, retrieval, assembly,
          attempts, result, increments, events,
          chatHistory, uploadStatus, filesLoading, alerted, pending, stored,
          corpus, threshold, candidates, previous, text, pieces, variant>>

----------------------------------------------------------------------------
(* Bounds *)

MaxSources == 3

MaxQueries == 2

MaxIncrements == 2

\* the number of messages that fit the localStorage quota
StorageQuota == 4

\* the number of segments in the vector store
MaxCorpus == 3

\* the largest distance of a segment to the query, in halves
MaxDistance == 5

\* k of search(query, k)
TopK == 2

\* chunk_size, the maximum number of characters of a chunk
MaxLen == 3

\* chunk_overlap
Overlap == 1

\* the longest text given to the chunker
MaxText == 5

\* the number of document requests in flight at once
MaxPending == 2

\* the longest question the server accepts
QuestionLimit == 2

----------------------------------------------------------------------------
(* Characters *)

WhiteSpace == {" ", "\t", "\n", "\r"}

LineTerminators == {"\n", "\r"}

Digits == {"0", "1", "2", "3", "4", "5", "6", "7", "8", "9"}

DigitVal(c) ==
    CASE c = "0" -> 0 [] c = "1" -> 1 [] c = "2" -> 2 [] c = "3" -> 3
      [] c = "4" -> 4 [] c = "5" -> 5 [] c = "6" -> 6 [] c = "7" -> 7
      [] c = "8" -> 8 [] c = "9" -> 9

\* "Page" under the /i flag: either case of each letter
PageWord == <<{"p", "P"}, {"a", "A"}, {"g", "G"}, {"e", "E"}>>

SourceOpen == <<"[", "S", "o", "u", "r", "c", "e", ":">>

----------------------------------------------------------------------------
(* String helpers *)

Includes(s, chars) == \E i \in 1..Len(s) : s[i] \in chars

\* first index >= i whose character is not in chars (Len(s)+1 when none)
RECURSIVE SkipWhile(_, _, _)
SkipWhile(s, i, chars) ==
    IF i <= Len(s) /\ s[i] \in chars THEN SkipWhile(s, i + 1, chars) ELSE i

\* last index <= i whose character is not in chars (0 when none)
RECURSIVE SkipBack(_, _, _)
SkipBack(s, i, chars) ==
    IF i >= 1 /\ s[i] \in chars THEN SkipBack(s, i - 1, chars) ELSE i

\* String.prototype.trim
Trim(s) ==
    SubSeq(s, SkipWhile(s, 1, WhiteSpace), SkipBack(s, Len(s), WhiteSpace))

\* Number(a) of a digit string
RECURSIVE Number(_)
Number(s) ==
    IF s = <<>> THEN 0
    ELSE 10 * Number(SubSeq(s, 1, Len(s) - 1)) + DigitVal(s[Len(s)])

\* sourceString.replace(/^\[Source:\s*/, '')
StripOpen(s) ==
    IF Len(s) >= Len(SourceOpen) /\ SubSeq(s, 1, Len(SourceOpen)) = SourceOpen
    THEN SubSeq(s, SkipWhile(s, Len(SourceOpen) + 1, WhiteSpace), Len(s))
    ELSE s

\* .replace(/\]$/, '')
StripClose(s) ==
    IF Len(s) > 0 /\ s[Len(s)] = "]" THEN SubSeq(s, 1, Len(s) - 1) ELSE s

cleanSource(sourceString) == Trim(StripClose(StripOpen(sourceString)))

----------------------------------------------------------------------------
(* pageMatch: /(.*?)(?:,?\s*\(?Page\s*(\d+)\)?)$/i                         *)

\* an optional single character c at index i: the index after it
SkipOne(s, i, c) == IF i <= Len(s) /\ s[i] = c THEN i + 1 ELSE i

\* "Page" at index i, in either case of each letter
IsPageAt(s, i) ==
    /\ i + 3 <= Len(s)
    /\ \A j \in 1..4 : s[i + j - 1] \in PageWord[j]

\* (\d+)\)?$ with the digits from i4 to i5 - 1
DigitsTo(s, i4, i5) ==
    IF i5 > i4 /\ SkipOne(s, i5, ")") = Len(s) + 1
    THEN SubSeq(s, i4, i5 - 1)
    ELSE <<>>

\* Page\s*(\d+)\)?$ from index i3
PageAt(s, i3) ==
    IF IsPageAt(s, i3)
    THEN DigitsTo(s, SkipWhile(s, i3 + 4, WhiteSpace),
                  SkipWhile(s, SkipWhile(s, i3 + 4, WhiteSpace), Digits))
    ELSE <<>>

\* The non-capturing group matched against s from index i to the end of s:
\* the digits of group 2, or <<>> when it does not match there.  Every
\* quantifier of the group is followed by a token it cannot overlap, so the
\* greedy choice is the only one that can succeed.
TailDigits(s, i) ==
    PageAt(s, SkipOne(s, SkipWhile(s, SkipOne(s, i, ","), WhiteSpace), "("))

\* the positions k such that the non-capturing group matches from k + 1 to
\* the end of s
TailStarts(s) == {k \in 0..Len(s) : TailDigits(s, k + 1) # <<>>}

\* (.*?) from start position st: the ends k >= st - 1 of group 1 at which
\* the rest of the pattern matches; '.' matches no line terminator
MatchEnds(s, st, tails) ==
    {k \in tails :
        /\ k >= st - 1
        /\ \A j \in st..k : s[j] \notin LineTerminators}

Min(S) == CHOOSE x \in S : \A y \in S : x <= y

Max(S) == CHOOSE x \in S : \A y \in S : x >= y

\* match returns null
NoMatch == [found |-> FALSE, g1 |-> <<>>, g2 |-> <<>>]

\* the match array: group 1 is s from st to k, group 2 the digits after it
Groups(s, st, k) ==
    [found |-> TRUE, g1 |-> SubSeq(s, st, k), g2 |-> TailDigits(s, k + 1)]

\* the start positions at which the pattern matches
MatchStarts(s, tails) ==
    {st \in 1..(Len(s) + 1) : MatchEnds(s, st, tails) # {}}

\* the first start position, and at it the shortest group 1
FirstMatch(s, tails, starts) ==
    IF starts = {} THEN NoMatch
    ELSE Groups(s, Min(starts), Min(MatchEnds(s, Min(starts), tails)))

\* the first start position, and at it the longest group 1
LongestMatch(s, tails, starts) ==
    IF starts = {} THEN NoMatch
    ELSE Groups(s, Min(starts), Max(MatchEnds(s, Min(starts), tails)))

MatchWith(s, tails) == FirstMatch(s, tails, MatchStarts(s, tails))

GreedyMatchWith(s, tails) == LongestMatch(s, tails, MatchStarts(s, tails))

\* pageMatch with a greedy group 1, (.*) for (.*?)
pageMatch_greedy(s) == GreedyMatchWith(s, TailStarts(s))

\* String.prototype.match: the first start position with a match, and at it
\* the shortest group 1.  [found, g1, g2]
pageMatch(s) == MatchWith(s, TailStarts(s))

\* first index >= i whose character is in chars (Len(s)+1 when none)
RECURSIVE FindFirst(_, _, _)
FindFirst(s, i, chars) ==
    IF i <= Len(s) /\ s[i] \notin chars THEN FindFirst(s, i + 1, chars) ELSE i

\* last index <= i whose character is in chars (0 when none)
RECURSIVE FindLast(_, _, _)
FindLast(s, i, chars) ==
    IF i >= 1 /\ s[i] \notin chars THEN FindLast(s, i - 1, chars) ELSE i

\* the filename left unsplit
BeforeFirstComma_unsplit(s) == s

\* filename.split(',')[0]
BeforeFirstComma(s) == SubSeq(s, 1, FindFirst(s, 1, {","}) - 1)

PathSeparators == {"/", "\\"}

\* a split on '/' alone
LastPathPart_slashOnly(s) == SubSeq(s, FindLast(s, Len(s), {"/"}) + 1, Len(s))

\* filename.split(/[/\\]/).pop()
LastPathPart(s) == SubSeq(s, FindLast(s, Len(s), PathSeparators) + 1, Len(s))

\* page = null
NoPage == <<>>

\* filename before the path is stripped: match[1].trim(), or the text left
\* of the first comma, or cleanSource
NameOf(clean, m) ==
    IF m.found THEN Trim(m.g1)
    ELSE IF Includes(clean, {","}) THEN Trim(BeforeFirstComma(clean))
    ELSE clean

\* if (filename.includes('/') || filename.includes('\\')) ... .pop()
StripPath(filename) ==
    IF Includes(filename, PathSeparators) THEN LastPathPart(filename)
    ELSE filename

Locals(clean, m) ==
    [filename |-> StripPath(NameOf(clean, m)),
     page     |-> IF m.found THEN m.g2 ELSE NoPage]

ParseClean(clean) == Locals(clean, pageMatch(clean))

\* The locals filename and page at the end of one forEach iteration
ParseSource(sourceString) == ParseClean(cleanSource(sourceString))

----------------------------------------------------------------------------
(* groupedSources: a plain object.  grouped holds its own properties in    *)
(* creation order; a property read also sees Object.prototype.             *)

Constructor ==
    <<"c", "o", "n", "s", "t", "r", "u", "c", "t", "o", "r">>

ToStringKey ==
    <<"t", "o", "S", "t", "r", "i", "n", "g">>

ProtoKey ==
    <<"_", "_", "p", "r", "o", "t", "o", "_", "_">>

\* names groupedSources = {} inherits (a part of them)
ObjectPrototypeKeys == {Constructor, ToStringKey, ProtoKey}

OwnIndex(g, filename) ==
    IF \E i \in 1..Len(g) : g[i].filename = filename
    THEN CHOOSE i \in 1..Len(g) : g[i].filename = filename
    ELSE 0

\* pages.add(page): a Set keeps insertion order and compares strings
SetAdd(pages, page) ==
    IF \E i \in 1..Len(pages) : pages[i] = page THEN pages
    ELSE Append(pages, page)

\* a canonical array index (a decimal integer below 2^32 - 1 without leading
\* zero): such keys come first in Object.keys, ascending.  The model takes
\* the strings of at most 9 digits, which are all below that limit.
IsArrayIndex(s) ==
    /\ Len(s) >= 1
    /\ Len(s) <= 9
    /\ \A i \in 1..Len(s) : s[i] \in Digits
    /\ (Len(s) = 1 \/ s[1] # "0")

\* Object.keys(groupedSources): the positions of grouped in key order
RECURSIVE InsertByKey(_, _, _)
InsertByKey(order, g, i) ==
    IF order = <<>> THEN <<i>>
    ELSE IF /\ IsArrayIndex(g[i].filename)
            /\ \/ ~IsArrayIndex(g[Head(order)].filename)
               \/ Number(g[i].filename) < Number(g[Head(order)].filename)
         THEN <<i>> \o order
         ELSE <<Head(order)>> \o InsertByKey(Tail(order), g, i)

RECURSIVE KeyOrder(_, _)
KeyOrder(g, n) ==
    IF n = 0 THEN <<>> ELSE InsertByKey(KeyOrder(g, n - 1), g, n)

ObjectKeys(g) == KeyOrder(g, Len(g))

\* Array.from(source.pages).sort((a, b) => Number(a) - Number(b)): stable
RECURSIVE InsertPage(_, _)
InsertPage(sorted, page) ==
    IF sorted = <<>> THEN <<page>>
    ELSE IF Number(page) - Number(Head(sorted)) < 0
         THEN <<page>> \o sorted
         ELSE <<Head(sorted)>> \o InsertPage(Tail(sorted), page)

RECURSIVE SortPages(_)
SortPages(pages) ==
    IF pages = <<>> THEN <<>>
    ELSE InsertPage(SortPages(SubSeq(pages, 1, Len(pages) - 1)), pages[Len(pages)])

\* pages.join(', ')
RECURSIVE Join(_)
Join(pages) ==
    IF pages = <<>> THEN <<>>
    ELSE IF Len(pages) = 1 THEN pages[1]
    ELSE pages[1] \o <<",", " ">> \o Join(Tail(pages))

PageLabel == <<"P", "a", "g", "e", " ">>

SourceDocument ==
    <<"S", "o", "u", "r", "c", "e", " ", "D", "o", "c", "u", "m", "e", "n", "t">>

Label(pages) == IF Len(pages) > 0 THEN PageLabel \o Join(pages) ELSE SourceDocument

----------------------------------------------------------------------------
(* The raw citations a message may carry: "[Source: " dir name tail "]"    *)

ReportPdf ==
    <<"r", "e", "p", "o", "r", "t", ".", "p", "d", "f">>

NotesTxt ==
    <<"n", "o", "t", "e", "s", ".", "t", "x", "t">>

SpaceNotesTxt == <<" ">> \o NotesTxt

NoDir == <<>>

DocsDir == <<"d", "o", "c", "s", "/">>

UpDir == <<"u", "p", "\\">>

CommaDir == <<"a", ",", "b", "/">>

\* the page indicator, or the other text, that follows the name
TailOf(form, digits) ==
    CASE form = "none"  -> <<>>
      [] form = "comma" -> <<",", " ", "P", "a", "g", "e", " ">> \o digits
      [] form = "paren" -> <<" ", "(", "P", "a", "g", "e", " ">> \o digits \o <<")">>
      [] form = "bare"  -> <<" ", "P", "a", "g", "e", " ">> \o digits
      [] form = "lower" -> <<",", "p", "a", "g", "e">> \o digits
      [] form = "note"  -> <<",", " ", "v", "2">>

PageForms == {"comma", "paren", "bare", "lower"}

Shape(dir, name, form, digits) ==
    [dir |-> dir, name |-> name, form |-> form, digits |-> digits]

Raw(sh) ==
    SourceOpen \o <<" ">> \o sh.dir \o sh.name \o TailOf(sh.form, sh.digits) \o <<"]">>

CitationShapes ==
    { Shape(NoDir, ReportPdf, "comma", <<"3">>),
      Shape(NoDir, ReportPdf, "comma", <<"1">>),
      Shape(NoDir, NotesTxt, "none", <<>>),
      Shape(NoDir, ReportPdf, "paren", <<"3">>),
      Shape(NoDir, ReportPdf, "bare", <<"3">>),
      Shape(NoDir, ReportPdf, "lower", <<"3">>),
      Shape(NoDir, ReportPdf, "comma", <<"0", "3">>),
      Shape(NoDir, ReportPdf, "comma", <<"1", "0">>),
      Shape(DocsDir, ReportPdf, "comma", <<"1">>),
      Shape(UpDir, NotesTxt, "none", <<>>),
      Shape(NoDir, NotesTxt, "note", <<>>),
      Shape(CommaDir, NotesTxt, "none", <<>>),
      Shape(NoDir, NotesTxt, "comma", <<"1">>),
      Shape(CommaDir, NotesTxt, "comma", <<"1">>),
      Shape(UpDir, SpaceNotesTxt, "none", <<>>),
      Shape(NoDir, SpaceNotesTxt, "none", <<>>),
      Shape(NoDir, <<"7">>, "none", <<>>),
      Shape(NoDir, <<"1", "2">>, "comma", <<"3">>),
      Shape(NoDir, Constructor, "none", <<>>),
      Shape(NoDir, Constructor, "comma", <<"1">>) }

RawCitations == {Raw(sh) : sh \in CitationShapes}

SourceLists == UNION {[1..n -> RawCitations] : n \in 1..MaxSources}

----------------------------------------------------------------------------
(* The "Verified References" block of one assistant message *)

\* ParseSource of every citation of the model, computed once
ParsedCitation == [r \in RawCitations |-> ParseSource(r)]

(* The App around one chat request, and the query pipeline that serves it *)

WelcomeMessage == [role |-> "assistant", kind |-> "welcome"]

\* the state of App after construction with an empty localStorage
AppMounted ==
    /\ files = <<>>
    /\ input = <<>>
    /\ isThinking = FALSE
    /\ messages = <<WelcomeMessage>>

\* the value undefined, and an array value
Undefined == [type |-> "undefined"]

Array(items) == [type |-> "array", items |-> items]

\* JSON.stringify of one message followed by JSON.parse: a property whose
\* value is undefined is left out
RoundTrip(msg) ==
    [f \in {g \in DOMAIN msg : ~(g = "sources" /\ msg[g] = Undefined)} |->
        msg[f]]

\* JSON.parse(JSON.stringify(msgs))
Stringify(msgs) == [i \in 1..Len(msgs) |-> RoundTrip(msgs[i])]

\* localStorage.getItem('chatHistory') is null
NoItem == <<>>

\* localStorage.setItem throws when the item does not fit the quota; the
\* model counts the quota in messages
Fits(msgs) == Len(msgs) <= StorageQuota

\* the save effect: try { localStorage.setItem('chatHistory',
\* JSON.stringify(messages)) } catch { console.error }
Saved(msgs) == IF Fits(msgs) THEN <<Stringify(msgs)>> ELSE chatHistory

\* an initialiser that takes an empty history for none
Loaded_emptyAsNone(saved) ==
    IF saved # NoItem /\ saved[1] # <<>> THEN saved[1] ELSE <<WelcomeMessage>>

\* useState initialiser of messages: the saved history, or the welcome
Loaded(saved) == IF saved # NoItem THEN saved[1] ELSE <<WelcomeMessage>>

\* a request in flight, or a timer set
Request(kind, batch, filename) ==
    [kind |-> kind, batch |-> batch, filename |-> filename]

\* GET /documents
DocumentsRequest == Request("documents", <<>>, "")

\* alert(text) or confirm(text), with the value the text interpolates
Alert(dialog, detail) == [dialog |-> dialog, detail |-> detail]

NoAlert == Alert("none", <<>>)

\* the client state outside the chat after construction: the history is
\* saved, fetchDocuments is under way
ClientMounted ==
    /\ chatHistory = <<Stringify(messages)>>
    /\ uploadStatus = "idle"
    /\ filesLoading = TRUE
    /\ alerted = NoAlert
    /\ pending = <<DocumentsRequest>>
    /\ variant = "part_000"

\* no search and no chunking
NoCore ==
    /\ corpus = <<>>
    /\ threshold = 0
    /\ candidates = <<>>
    /\ previous = <<>>
    /\ text = <<>>
    /\ pieces = <<>>

\* the pipeline before any query
NoQuery ==
    /\ endpoint = "none"
    /\ queries = 0
    /\ retrieval = "none"
    /\ assembly = "none"
    /\ attempts = <<>>
    /\ result = "none"
    /\ increments = 0
    /\ events = <<>>

\* msg.sources && msg.sources.length > 0: groupedSources = {}
InitCite ==
    /\ sources \in SourceLists
    /\ idx = 0
    /\ grouped = <<>>
    /\ parsed = <<>>
    /\ pc = "grouping"
    /\ display = <<>>
    /\ AppMounted
    /\ NoQuery
    /\ geminiAvailable = TRUE
    /\ ClientMounted
    /\ stored = <<>>
    /\ NoCore

\* if (!groupedSources[filename]) groupedSources[filename] = {...}: the
\* read sees an own entry or a value inherited from Object.prototype
EnsureEntry(g, filename, sourceString) ==
    IF OwnIndex(g, filename) = 0 /\ filename \notin ObjectPrototypeKeys
    THEN Append(g, [filename |-> filename,
                    pages    |-> <<>>,
                    original |-> sourceString])
    ELSE g

\* if (page) groupedSources[filename].pages.add(page), at the own entry at
\* (0: groupedSources[filename] is an inherited value without pages, .add
\* throws a TypeError and the render aborts)
AddPage(g, at, page) ==
    IF page # NoPage
    THEN IF at = 0
         THEN /\ pc' = "threw"
              /\ grouped' = g
         ELSE /\ pc' = pc
              /\ grouped' = [g EXCEPT ![at].pages = SetAdd(@, page)]
    ELSE /\ pc' = pc
         /\ grouped' = g

AddPageOf(g, p) == AddPage(g, OwnIndex(g, p.filename), p.page)

\* the body of the forEach callback, p the locals filename and page
Iteration(sourceString, p) ==
    /\ parsed' = Append(parsed, p)
    /\ idx' = idx + 1
    /\ AddPageOf(EnsureEntry(grouped, p.filename, sourceString), p)

\* one iteration of msg.sources.forEach
GroupStep ==
    /\ pc = "grouping"
    /\ idx < Len(sources)
    /\ Iteration(sources[idx + 1], ParsedCitation[sources[idx + 1]])
    /\ UNCHANGED <<sources, display>>

\* one card: the filename, Array.from(pages).sort(...), the label
Card(entry, pages) ==
    [filename |-> entry.filename, pages |-> pages, label |-> Label(pages)]

Cards(g, keys) ==
    [i \in 1..Len(keys) |-> Card(g[keys[i]], SortPages(g[keys[i]].pages))]

\* Object.keys(groupedSources).map: one card per key
Render ==
    /\ pc = "grouping"
    /\ idx = Len(sources)
    /\ display' = Cards(grouped, ObjectKeys(grouped))
    /\ pc' = "rendered"
    /\ UNCHANGED <<sources, idx, grouped, parsed>>

NextCite ==
    (GroupStep \/ Render) /\ UNCHANGED <<appVars, queryVars, clientVars, coreVars>>

SpecCite == InitCite /\ [][NextCite]_vars

----------------------------------------------------------------------------
(* One query: the client's chat request (App.handleSendMessage) or a       *)
(* request to the streaming endpoint, served by the pipeline of the design *)
(* document: retrieval, context assembly, provider fallback, delivery.     *)

\* the documents GET /documents may list
ServerDocuments == {<<>>, <<"report.pdf">>}

\* q without its k-th element
Remove(q, k) == SubSeq(q, 1, k - 1) \o SubSeq(q, k + 1, Len(q))

\* a question of one character more than the server accepts
LongQuestion == [i \in 1..(QuestionLimit + 1) |-> "x"]

\* what the user may type
Inputs == {<<>>, <<" ">>, <<"h", "i">>, LongQuestion}

\* response.data.sources
ResponseSources ==
    {Undefined, Array(<<>>), Array(<<"[Source: report.pdf, Page 3]">>)}

\* s.includes(sub)
IncludesText(s, sub) ==
    \E i \in 0..(Len(s) - Len(sub)) : SubSeq(s, i + 1, i + Len(sub)) = sub

TooLong == <<"t", "o", "o", " ", "l", "o", "n", "g">>

Empty == <<"e", "m", "p", "t", "y">>

\* the axios error of a request answered with a status outside 2xx;
\* detail is error.response.data?.detail || ''
Response(status, detail) ==
    [response |-> TRUE, request |-> TRUE, status |-> status, detail |-> detail]

\* the request was sent and no response arrived
NoResponse ==
    [response |-> FALSE, request |-> TRUE, status |-> 0, detail |-> <<>>]

\* the request could not be set up
NoRequest ==
    [response |-> FALSE, request |-> FALSE, status |-> 0, detail |-> <<>>]

\* errorMsg of the catch of handleSendMessage, without the detail it
\* interpolates
ErrorText(error) ==
    IF error.response
    THEN IF error.status = 429
         THEN "**Rate Limit**: You're asking too many questions! Please wait a minute and try again."
         ELSE IF error.status = 400
         THEN IF IncludesText(error.detail, TooLong)
              THEN "**Question Too Long**: Please keep your question under 500 characters."
              ELSE IF IncludesText(error.detail, Empty)
              THEN "**Empty Question**: Please type a question first."
              ELSE "**Invalid Request**: ${detail}"
         ELSE IF error.status = 500
         THEN "**Server Error**: The AI encountered an issue. Please try rephrasing your question or contact support."
         ELSE IF error.detail # <<>>
         THEN "**Error**: ${detail}"
         ELSE "**Error**: Unknown error occurred"
    ELSE IF error.request
    THEN "**Connection Error**: Cannot reach the server. Please check if the backend is running on port 8000."
    ELSE "**Error**: Something went wrong. "

\* the detail interpolated into errorMsg (<<>> when it has none)
ErrorDetail(error) ==
    IF /\ error.response
       /\ error.status \notin {429, 500}
       /\ error.status = 400 =>
             /\ ~IncludesText(error.detail, TooLong)
             /\ ~IncludesText(error.detail, Empty)
    THEN error.detail
    ELSE <<>>

\* an error message that carries the sources of an answer
ErrorMessage_withSources(error) ==
    [role |-> "assistant", kind |-> "error",
     text |-> ErrorText(error), content |-> ErrorDetail(error),
     sources |-> Array(<<>>)]

\* { role: 'assistant', content: errorMsg }
ErrorMessage(error) ==
    [role |-> "assistant", kind |-> "error",
     text |-> ErrorText(error), content |-> ErrorDetail(error)]

\* what the server answers when generation has failed
GenerationErrors ==
    {Response(500, <<"f", "a", "i", "l", "e", "d">>), Response(503, <<>>)}

\* what a chat request is refused with before the pipeline runs
RefusalErrors ==
    {Response(429, <<"s", "l", "o", "w", " ", "d", "o", "w", "n">>),
     Response(400, <<"Q", "u", "e", "s", "t", "i", "o", "n", " ", "t", "o", "o", " ", "l", "o", "n", "g">>),
     Response(400, <<"Q", "u", "e", "s", "t", "i", "o", "n", " ", "i", "s", " ", "e", "m", "p", "t", "y">>),
     Response(400, <<"e", "m", "p", "t", "y", " ", "o", "r", " ", "t", "o", "o", " ", "l", "o", "n", "g">>),
     Response(400, <<"b", "a", "d">>),
     Response(422, <<"b", "a", "d">>),
     NoResponse,
     NoRequest}

\* the fixed configured order: primary, then fallback
Providers == <<"gemini", "openrouter">>

AllProvidersFailed == "AllProvidersFailed"

\* "Gemini API available?": only the primary is checked before its call
Available(i) == i # 1 \/ geminiAvailable

\* index of the provider of the latest attempt (0 before the first)
LastTried == IF attempts = <<>> THEN 0 ELSE attempts[Len(attempts)].index

Calling == {k \in 1..Len(attempts) : attempts[k].outcome = "calling"}

\* a fallback that tries the same provider again
NextProvider_retry(i) ==
    IF i # 0 THEN i
    ELSE IF \E j \in 1..Len(Providers) : Available(j)
         THEN Min({j \in 1..Len(Providers) : Available(j)})
         ELSE 0

\* lateral fallback: the next available provider after i (0 when none)
NextProvider(i) ==
    IF \E j \in (i + 1)..Len(Providers) : Available(j)
    THEN Min({j \in (i + 1)..Len(Providers) : Available(j)})
    ELSE 0

\* the error raised as soon as one provider fails
Exhausted_early(i) == TRUE

\* ExhaustedFailed: the provider that failed was the last one
Exhausted(i) == NextProvider(i) = 0

\* provider calls started as soon as the chunks are retrieved, one beside
\* the other
CanAttempt_speculative == retrieval = "done" /\ result = "none"

\* a provider is attempted after context assembly, one call at a time
CanAttempt == assembly = "done" /\ result = "none" /\ Calling = {}

\* the pipeline at the start of a query
Received(ep) ==
    /\ endpoint' = ep
    /\ queries' = queries + 1
    /\ retrieval' = "none"
    /\ assembly' = "none"
    /\ attempts' = <<>>
    /\ result' = "none"
    /\ increments' = 0
    /\ UNCHANGED geminiAvailable

InitQuery ==
    /\ sources = <<>>
    /\ idx = 0
    /\ grouped = <<>>
    /\ parsed = <<>>
    /\ pc = "rendered"
    /\ display = <<>>
    /\ AppMounted
    /\ NoQuery
    /\ geminiAvailable \in BOOLEAN
    /\ ClientMounted
    /\ stored \in ServerDocuments
    /\ NoCore

\* fetchDocuments, from its response on: setFiles(res.data.documents || [])
FetchDocumentsDone ==
    /\ \E k \in 1..Len(pending) :
          /\ pending[k] = DocumentsRequest
          /\ pending' = Remove(pending, k)
    /\ files' = stored
    /\ filesLoading' = FALSE
    /\ UNCHANGED <<citeVars, input, isThinking, messages, queryVars,
                   chatHistory, uploadStatus, alerted, stored,
                   coreVars>>

\* a textarea that stays enabled without documents
TextareaDisabled_thinkingOnly == isThinking

\* textarea: disabled={isThinking || files.length === 0}
TextareaDisabled == isThinking \/ Len(files) = 0

\* submit button: disabled={!input.trim() || isThinking || files.length === 0}
SubmitDisabled == Trim(input) = <<>> \/ isThinking \/ Len(files) = 0

\* the warning under the form: files.length === 0
WarningShown == Len(files) = 0

\* textarea onChange: setInput(e.target.value)
TypeInput ==
    /\ ~TextareaDisabled
    /\ \E value \in Inputs : input' = value
    /\ UNCHANGED <<citeVars, files, isThinking, messages, queryVars,
                   clientVars, coreVars>>

\* an early return while thinking only
EarlyReturn_thinkingOnly == isThinking

\* if (!input.trim() || isThinking) return
EarlyReturn == Trim(input) = <<>> \/ isThinking

\* the form can be submitted: Enter in the enabled textarea, or the enabled
\* submit button
CanSubmit == ~TextareaDisabled \/ ~SubmitDisabled

\* handleSendMessage up to the await, called by Enter in the textarea or by
\* the submit of the form: POST /chat {question, provider: 'auto'}; the
\* pipeline serves one request, a streaming one is not interrupted
SendMessage ==
    /\ CanSubmit
    /\ ~EarlyReturn
    /\ queries < MaxQueries
    /\ endpoint # "/chat/stream"
    /\ input' = <<>>
    /\ messages' = Append(messages,
           [role |-> "user", kind |-> "question", content |-> input])
    /\ chatHistory' = Saved(messages')
    /\ isThinking' = TRUE
    /\ Received("/chat")
    /\ events' = <<>>
    /\ UNCHANGED <<citeVars, files, uploadVars, coreVars>>

\* handleSendMessage returns early: nothing is sent and nothing is set
SubmitIgnored ==
    /\ CanSubmit
    /\ EarlyReturn
    /\ UNCHANGED vars

\* POST /chat/stream by a caller of the streaming endpoint: event: thinking
StreamRequest ==
    /\ endpoint = "none"
    /\ queries < MaxQueries
    /\ Received("/chat/stream")
    /\ events' = <<[type |-> "thinking"]>>
    /\ UNCHANGED <<citeVars, clientVars, coreVars, appVars>>

\* Step 1: search_documents(query)
StartRetrieval ==
    /\ endpoint # "none"
    /\ retrieval = "none"
    /\ retrieval' = "running"
    /\ UNCHANGED <<citeVars, clientVars, coreVars, appVars, endpoint, queries, geminiAvailable,
                   assembly, attempts, result, increments, events>>

\* Relevant chunks + metadata returned
FinishRetrieval ==
    /\ retrieval = "running"
    /\ retrieval' = "done"
    /\ UNCHANGED <<citeVars, clientVars, coreVars, appVars, endpoint, queries, geminiAvailable,
                   assembly, attempts, result, increments, events>>

\* Step 2: build the prompt with the context
StartAssembly ==
    /\ retrieval = "done"
    /\ assembly = "none"
    /\ assembly' = "running"
    /\ UNCHANGED <<citeVars, clientVars, coreVars, appVars, endpoint, queries, geminiAvailable,
                   retrieval, attempts, result, increments, events>>

FinishAssembly ==
    /\ assembly = "running"
    /\ assembly' = "done"
    /\ UNCHANGED <<citeVars, clientVars, coreVars, appVars, endpoint, queries, geminiAvailable,
                   retrieval, attempts, result, increments, events>>

\* AttemptingProvider(i): the call of the next provider starts
StartAttempt ==
    /\ CanAttempt
    /\ NextProvider(LastTried) # 0
    /\ attempts' = Append(attempts,
           [index    |-> NextProvider(LastTried),
            provider |-> Providers[NextProvider(LastTried)],
            outcome  |-> "calling"])
    /\ UNCHANGED <<citeVars, clientVars, coreVars, appVars, endpoint, queries, geminiAvailable,
                   retrieval, assembly, result, increments, events>>

\* Succeeded: the provider answers; its text is the result
AttemptSucceeds ==
    /\ \E k \in Calling :
          /\ result = "none"
          /\ attempts' = [attempts EXCEPT ![k].outcome = "ok"]
          /\ result' = attempts[k].provider
    /\ \E n \in 1..MaxIncrements : increments' = n
    /\ UNCHANGED <<citeVars, clientVars, coreVars, appVars, endpoint, queries, geminiAvailable,
                   retrieval, assembly, events>>

\* a transport error, a rate limit, a malformed or empty response, a timeout:
\* fall back to the next provider, or raise when the list is exhausted
AttemptFails ==
    /\ \E k \in Calling :
          /\ result = "none"
          /\ attempts' = [attempts EXCEPT ![k].outcome = "failed"]
          /\ result' = IF Exhausted(attempts[k].index)
                       THEN AllProvidersFailed
                       ELSE "none"
    /\ UNCHANGED <<citeVars, clientVars, coreVars, appVars, endpoint, queries, geminiAvailable,
                   retrieval, assembly, increments, events>>

\* handleSendMessage after the await: the response {answer, sources, context}
\* becomes one assistant message; finally setIsThinking(false)
ChatResolve ==
    /\ endpoint = "/chat"
    /\ result \notin {"none", AllProvidersFailed}
    /\ \E src \in ResponseSources :
          messages' = Append(messages,
              [role |-> "assistant", kind |-> "answer",
               provider |-> result, increments |-> increments,
               sources |-> src])
    /\ chatHistory' = Saved(messages')
    /\ isThinking' = FALSE
    /\ endpoint' = "none"
    /\ UNCHANGED <<citeVars, files, input, queries, geminiAvailable, retrieval,
                   assembly, attempts, result, increments, events,
                   uploadVars, coreVars>>

\* a catch that shows nothing
Caught_silent(error) ==
    /\ isThinking' = FALSE
    /\ endpoint' = "none"
    /\ UNCHANGED <<citeVars, files, input, messages, chatHistory, queries,
                   geminiAvailable, retrieval, assembly, attempts, result,
                   increments, events, uploadVars, coreVars>>

\* handleSendMessage catch and finally: the error text becomes one assistant
\* message; setIsThinking(false)
Caught(error) ==
    /\ messages' = Append(messages, ErrorMessage(error))
    /\ chatHistory' = Saved(messages')
    /\ isThinking' = FALSE
    /\ endpoint' = "none"
    /\ UNCHANGED <<citeVars, files, input, queries, geminiAvailable, retrieval,
                   assembly, attempts, result, increments, events,
                   uploadVars, coreVars>>

\* the request fails because generation failed
ChatReject ==
    /\ endpoint = "/chat"
    /\ result = AllProvidersFailed
    /\ \E error \in GenerationErrors : Caught(error)

AnswerEvents == {k \in 1..Len(events) : events[k].type = "answer"}

HasEvent(type) == \E k \in 1..Len(events) : events[k].type = type

\* event: sources, once the response chunks are there
EmitSources ==
    /\ endpoint = "/chat/stream"
    /\ result \notin {"none", AllProvidersFailed}
    /\ ~HasEvent("sources")
    /\ events' = Append(events, [type |-> "sources"])
    /\ UNCHANGED <<citeVars, clientVars, coreVars, appVars, endpoint, queries, geminiAvailable,
                   retrieval, assembly, attempts, result, increments>>

\* event: answer (chunk n)
EmitAnswer ==
    /\ endpoint = "/chat/stream"
    /\ HasEvent("sources")
    /\ Cardinality(AnswerEvents) < increments
    /\ events' = Append(events,
           [type |-> "answer", chunk |-> Cardinality(AnswerEvents) + 1])
    /\ UNCHANGED <<citeVars, clientVars, coreVars, appVars, endpoint, queries, geminiAvailable,
                   retrieval, assembly, attempts, result, increments>>

\* event: done; the stream ends
EmitDone ==
    /\ endpoint = "/chat/stream"
    /\ HasEvent("sources")
    /\ Cardinality(AnswerEvents) = increments
    /\ events' = Append(events, [type |-> "done"])
    /\ endpoint' = "none"
    /\ UNCHANGED <<citeVars, clientVars, coreVars, appVars, queries, geminiAvailable,
                   retrieval, assembly, attempts, result, increments>>

\* the stream of a query whose generation failed ends without an answer
StreamFails ==
    /\ endpoint = "/chat/stream"
    /\ result = AllProvidersFailed
    /\ endpoint' = "none"
    /\ UNCHANGED <<citeVars, clientVars, coreVars, appVars, queries, geminiAvailable,
                   retrieval, assembly, attempts, result, increments, events>>

NextQuery ==
    \/ FetchDocumentsDone
    \/ TypeInput
    \/ SendMessage
    \/ StreamRequest
    \/ StartRetrieval
    \/ FinishRetrieval
    \/ StartAssembly
    \/ FinishAssembly
    \/ StartAttempt
    \/ AttemptSucceeds
    \/ AttemptFails
    \/ ChatResolve
    \/ ChatReject
    \/ EmitSources
    \/ EmitAnswer
    \/ EmitDone
    \/ StreamFails

SpecQuery == InitQuery /\ [][NextQuery]_vars

----------------------------------------------------------------------------
(* Documents: the list, upload, delete and clear of App, and the store of  *)
(* the server they act on.                                                 *)

\* a selected file: its name, and whether it exceeds 10MB
File(name, large) == [name |-> name, large |-> large]

\* Array.from(e.target.files) of the non-empty selections of the model
Batches ==
    {<<File("a.pdf", FALSE)>>,
     <<File("b.pdf", FALSE)>>,
     <<File("big.pdf", TRUE)>>,
     <<File("a.pdf", FALSE), File("b.pdf", FALSE)>>,
     <<File("big.pdf", TRUE), File("b.pdf", FALSE)>>}

InitialStores == {<<>>, <<"a.pdf">>, <<"a.pdf", "b.pdf">>}

\* server: the status a file is rejected with (0 when it is accepted): too
\* large, or a duplicate of a stored filename
FileStatus(file, st) ==
    IF file.large THEN 413
    ELSE IF \E i \in 1..Len(st) : st[i] = file.name THEN 409
    ELSE 0

\* server: the store after the batch; a rejected file does not abort the
\* files after it
RECURSIVE Ingest(_, _)
Ingest(batch, st) ==
    IF batch = <<>> THEN st
    ELSE Ingest(Tail(batch),
                IF FileStatus(Head(batch), st) = 0
                THEN Append(st, Head(batch).name)
                ELSE st)

\* server: the status of the first rejected file of the batch (0 when none)
RECURSIVE FirstRejection(_, _)
FirstRejection(batch, st) ==
    IF batch = <<>> THEN 0
    ELSE IF FileStatus(Head(batch), st) # 0 THEN FileStatus(Head(batch), st)
    ELSE FirstRejection(Tail(batch), Append(st, Head(batch).name))

\* the failures of an upload request as a whole
RequestErrors ==
    {Response(429, <<>>),
     Response(400, <<"b", "a", "d", " ", "t", "y", "p", "e">>),
     Response(400, <<>>),
     Response(500, <<"f", "a", "i", "l", "e", "d">>),
     Response(502, <<>>),
     NoResponse,
     NoRequest}

\* the failures the upload of a batch may end with
UploadErrors(batch, st) ==
    RequestErrors \cup
        IF FirstRejection(batch, st) # 0
        THEN {Response(FirstRejection(batch, st), <<"d", "u", "p">>)}
        ELSE {}

\* errorMsg of the catch of handleFileUpload
UploadErrorAlert(error) ==
    IF error.response
    THEN IF error.status = 413
         THEN Alert("File too large! Maximum size is 10MB per file.", <<>>)
         ELSE IF error.status = 409
         THEN Alert("Duplicate File: ${detail}", error.detail)
         ELSE IF error.status = 429
         THEN Alert("Too many uploads. Please wait a minute and try again.", <<>>)
         ELSE IF error.status = 400
         THEN IF error.detail # <<>>
              THEN Alert("${detail}", error.detail)
              ELSE Alert("Invalid file. Please check the file type and try again.", <<>>)
         ELSE IF error.detail # <<>>
         THEN Alert("Upload failed: ${detail}", error.detail)
         ELSE Alert("Upload failed: Unknown error", <<>>)
    ELSE IF error.request
    THEN Alert("Cannot reach server. Please check if the backend is running.", <<>>)
    ELSE Alert("Failed to upload files. ", <<>>)

\* setTimeout(() => setUploadStatus('idle'), 2000)
Timer == Request("timer", <<>>, "")

\* a filter that keeps the deleted name
Without_kept(q, filename) == SelectSeq(q, LAMBDA f : f = filename)

\* prev.filter(f => f !== filename)
Without(q, filename) == SelectSeq(q, LAMBDA f : f # filename)

InitDocs ==
    /\ sources = <<>>
    /\ idx = 0
    /\ grouped = <<>>
    /\ parsed = <<>>
    /\ pc = "rendered"
    /\ display = <<>>
    /\ AppMounted
    /\ NoQuery
    /\ geminiAvailable = TRUE
    /\ ClientMounted
    /\ stored \in InitialStores
    /\ NoCore

\* fetchDocuments, catch and finally: the list is left as it is
FetchDocumentsFails ==
    /\ \E k \in 1..Len(pending) :
          /\ pending[k] = DocumentsRequest
          /\ pending' = Remove(pending, k)
    /\ filesLoading' = FALSE
    /\ UNCHANGED <<citeVars, appVars, queryVars, chatHistory,
                   uploadStatus, alerted, stored, coreVars>>

\* handleFileUpload up to the await, for a non-empty selection: one POST
\* /upload with every selected file
SelectFiles ==
    /\ Len(pending) < MaxPending
    /\ \E batch \in Batches :
          pending' = Append(pending, Request("upload", batch, ""))
    /\ uploadStatus' = "uploading"
    /\ UNCHANGED <<citeVars, appVars, queryVars, chatHistory,
                   filesLoading, alerted, stored, coreVars>>

\* handleFileUpload after the await: the server has accepted every file;
\* await fetchDocuments(), which loads the list or, in its catch, leaves it;
\* setUploadStatus('success'), the timer is set
UploadResolve ==
    /\ \E k \in 1..Len(pending) :
          /\ pending[k].kind = "upload"
          /\ FirstRejection(pending[k].batch, stored) = 0
          /\ stored' = Ingest(pending[k].batch, stored)
          /\ pending' = Append(Remove(pending, k), Timer)
    /\ \E fetched \in BOOLEAN : files' = IF fetched THEN stored' ELSE files
    /\ filesLoading' = FALSE
    /\ uploadStatus' = "success"
    /\ UNCHANGED <<citeVars, chatVars, queryVars, alerted, coreVars>>

\* a catch that loads the list again
UploadCaught_refresh(error) ==
    /\ uploadStatus' = "error"
    /\ alerted' = UploadErrorAlert(error)
    /\ files' = stored'
    /\ UNCHANGED <<citeVars, chatVars, queryVars, filesLoading, coreVars>>

\* the catch of handleFileUpload
UploadCaught(error) ==
    /\ uploadStatus' = "error"
    /\ alerted' = UploadErrorAlert(error)
    /\ UNCHANGED <<citeVars, appVars, queryVars, chatHistory,
                   filesLoading, coreVars>>

\* the upload request fails: the server has rejected a file of the batch
\* (and ingested the others), or the request as a whole has failed
UploadReject ==
    \E k \in 1..Len(pending) :
        /\ pending[k].kind = "upload"
        /\ \E error \in UploadErrors(pending[k].batch, stored) :
              /\ stored' = IF error \in RequestErrors THEN stored
                            ELSE Ingest(pending[k].batch, stored)
              /\ UploadCaught(error)
        /\ pending' = Append(Remove(pending, k), Timer)

\* the timer of handleFileUpload fires
TimerFires ==
    /\ \E k \in 1..Len(pending) :
          /\ pending[k] = Timer
          /\ pending' = Remove(pending, k)
    /\ uploadStatus' = "idle"
    /\ UNCHANGED <<citeVars, appVars, queryVars, chatHistory,
                   filesLoading, alerted, stored, coreVars>>

\* handleDeleteFile up to the await, from the delete button of a listed
\* file: confirm, then DELETE /documents/filename
DeleteFile ==
    /\ ~filesLoading
    /\ \E i \in 1..Len(files), confirmed \in BOOLEAN :
          /\ alerted' = Alert("Are you sure you want to delete ${filename}?",
                               <<files[i]>>)
          /\ IF confirmed
             THEN /\ Len(pending) < MaxPending
                  /\ pending' = Append(pending, Request("delete", <<>>, files[i]))
             ELSE pending' = pending
    /\ UNCHANGED <<citeVars, appVars, queryVars, chatHistory,
                   uploadStatus, filesLoading, stored, coreVars>>

\* handleDeleteFile after the await: the server has removed the document
DeleteResolve ==
    /\ \E k \in 1..Len(pending) :
          /\ pending[k].kind = "delete"
          /\ \E i \in 1..Len(stored) : stored[i] = pending[k].filename
          /\ stored' = Without(stored, pending[k].filename)
          /\ files' = Without(files, pending[k].filename)
          /\ pending' = Remove(pending, k)
    /\ UNCHANGED <<citeVars, chatVars, queryVars, uploadStatus, filesLoading,
                   alerted, coreVars>>

\* the catch of handleDeleteFile: the document was not found, or the request
\* has failed
DeleteReject ==
    /\ \E k \in 1..Len(pending) :
          /\ pending[k].kind = "delete"
          /\ pending' = Remove(pending, k)
    /\ alerted' = Alert("Failed to delete file", <<>>)
    /\ UNCHANGED <<citeVars, appVars, queryVars, chatHistory,
                   uploadStatus, filesLoading, stored, coreVars>>

\* handleClearDatabase up to the await, from the Clear All button, which is
\* rendered while files.length > 0: confirm, then DELETE /clear
ClearDatabase ==
    /\ Len(files) > 0
    /\ alerted' = Alert("This will delete ALL uploaded documents and search index. Are you sure?", <<>>)
    /\ \E confirmed \in BOOLEAN :
          IF confirmed
          THEN /\ Len(pending) < MaxPending
               /\ pending' = Append(pending, Request("clear", <<>>, ""))
               /\ filesLoading' = TRUE
          ELSE /\ pending' = pending
               /\ filesLoading' = filesLoading
    /\ UNCHANGED <<citeVars, appVars, queryVars, chatHistory,
                   uploadStatus, stored, coreVars>>

\* a clear that leaves the displayed list as it is
ClearResolve_keeps ==
    /\ \E k \in 1..Len(pending) :
          /\ pending[k].kind = "clear"
          /\ pending' = Remove(pending, k)
    /\ stored' = <<>>
    /\ alerted' = Alert("Knowledge base cleared successfully.", <<>>)
    /\ filesLoading' = FALSE
    /\ UNCHANGED <<citeVars, appVars, queryVars, chatHistory, uploadStatus,
                   coreVars>>

\* handleClearDatabase after the await: the server has wiped the store
ClearResolve ==
    /\ \E k \in 1..Len(pending) :
          /\ pending[k].kind = "clear"
          /\ pending' = Remove(pending, k)
    /\ stored' = <<>>
    /\ files' = <<>>
    /\ alerted' = Alert("Knowledge base cleared successfully.", <<>>)
    /\ filesLoading' = FALSE
    /\ UNCHANGED <<citeVars, chatVars, queryVars, uploadStatus, coreVars>>

\* the catch and finally of handleClearDatabase
ClearReject ==
    /\ \E k \in 1..Len(pending) :
          /\ pending[k].kind = "clear"
          /\ pending' = Remove(pending, k)
    /\ alerted' = Alert("Failed to clear database", <<>>)
    /\ filesLoading' = FALSE
    /\ UNCHANGED <<citeVars, appVars, queryVars, chatHistory,
                   uploadStatus, stored, coreVars>>

\* the page is reloaded: App is constructed again, the history is read from
\* localStorage and saved, fetchDocuments starts; the responses of the
\* requests of the page before are dropped
Reload ==
    /\ files' = <<>>
    /\ input' = <<>>
    /\ isThinking' = FALSE
    /\ messages' = Loaded(chatHistory)
    /\ chatHistory' = Saved(messages')
    /\ uploadStatus' = "idle"
    /\ filesLoading' = TRUE
    /\ alerted' = NoAlert
    /\ pending' = <<DocumentsRequest>>
    /\ endpoint' = "none"
    /\ UNCHANGED <<citeVars, queries, geminiAvailable, retrieval, assembly,
                   attempts, result, increments, events, stored, coreVars>>

NextDocs ==
    \/ FetchDocumentsDone
    \/ FetchDocumentsFails
    \/ SelectFiles
    \/ UploadResolve
    \/ UploadReject
    \/ TimerFires
    \/ DeleteFile
    \/ DeleteResolve
    \/ DeleteReject
    \/ ClearDatabase
    \/ ClearResolve
    \/ ClearReject
    \/ Reload

SpecDocs == InitDocs /\ [][NextDocs]_vars

----------------------------------------------------------------------------
(* Chat: the conversation of App, its history in localStorage, and the     *)
(* chat request with the backend taken as one step.                        *)

InitChat ==
    /\ sources = <<>>
    /\ idx = 0
    /\ grouped = <<>>
    /\ parsed = <<>>
    /\ pc = "rendered"
    /\ display = <<>>
    /\ AppMounted
    /\ NoQuery
    /\ geminiAvailable = TRUE
    /\ ClientMounted
    /\ stored \in ServerDocuments
    /\ NoCore

\* POST /chat is served: a provider has generated the answer, or generation
\* has failed
ServeChat ==
    /\ endpoint = "/chat"
    /\ result = "none"
    /\ \E i \in 1..Len(Providers) :
          \/ result' = Providers[i] /\ increments' = 1
          \/ result' = AllProvidersFailed /\ increments' = 0
    /\ UNCHANGED <<citeVars, clientVars, coreVars, appVars, endpoint, queries,
                   geminiAvailable, retrieval, assembly, attempts, events>>

\* POST /chat is refused before the pipeline runs, or gets no response
ChatRefused ==
    /\ endpoint = "/chat"
    /\ result = "none"
    /\ \E error \in RefusalErrors : Caught(error)

\* New Conversation: setMessages([]), localStorage.removeItem('chatHistory'),
\* then the save effect of the new list
NewConversation ==
    /\ messages' = <<>>
    /\ chatHistory' = IF Fits(messages') THEN <<Stringify(messages')>> ELSE NoItem
    /\ UNCHANGED <<citeVars, files, input, isThinking, queryVars,
                   uploadVars, coreVars>>

NextChat ==
    \/ FetchDocumentsDone
    \/ TypeInput
    \/ SendMessage
    \/ SubmitIgnored
    \/ ServeChat
    \/ ChatResolve
    \/ ChatReject
    \/ ChatRefused
    \/ NewConversation
    \/ Reload

SpecChat == InitChat /\ [][NextChat]_vars

----------------------------------------------------------------------------
(* The chat form beside the document list: what is typed and sent while    *)
(* the list is loaded, cleared and loaded again.                           *)

NextForm ==
    \/ FetchDocumentsDone
    \/ TypeInput
    \/ SendMessage
    \/ ClearDatabase
    \/ ClearResolve
    \/ Reload

SpecForm == InitChat /\ [][NextForm]_vars

----------------------------------------------------------------------------
(* Retrieval: search(query, k) over the vector store.  A distance d stands *)
(* for d/2, a threshold t for t/10.                                        *)

Distances == 0..MaxDistance

Thresholds == 0..10

Corpora == UNION {[1..n -> Distances] : n \in 0..MaxCorpus}

\* segment i is nearer to the query than segment j; ties in store order
Nearer(c, i, j) == c[i] < c[j] \/ (c[i] = c[j] /\ i < j)

\* the k nearest stored vectors, nearest first
Nearest(c, k) ==
    [r \in 1..Min({k, Len(c)}) |->
        CHOOSE i \in 1..Len(c) :
            Cardinality({j \in 1..Len(c) : Nearer(c, j, i)}) = r - 1]

\* similarity = 1/(1+distance), as a fraction
Similarity(d) == [num |-> 2, den |-> 2 + d]

\* a filter that lets every candidate through
AtLeast_unfiltered(sim, t) == TRUE

\* similarity >= threshold
AtLeast(sim, t) == sim.num * 10 >= t * sim.den

Candidate(c, i) == [segment |-> i, similarity |-> Similarity(c[i])]

\* Filter by Score: the candidates below the threshold are discarded
FilterByScore(cands, t) ==
    SelectSeq(cands, LAMBDA cd : AtLeast(cd.similarity, t))

Converted(c, nearest) == [r \in 1..Len(nearest) |-> Candidate(c, nearest[r])]

search(c, k, t) == FilterByScore(Converted(c, Nearest(c, k)), t)

InitSearch ==
    /\ sources = <<>>
    /\ idx = 0
    /\ grouped = <<>>
    /\ parsed = <<>>
    /\ pc = "rendered"
    /\ display = <<>>
    /\ AppMounted
    /\ NoQuery
    /\ geminiAvailable = TRUE
    /\ ClientMounted
    /\ stored = <<>>
    /\ corpus \in Corpora
    /\ threshold \in Thresholds
    /\ candidates = <<>>
    /\ previous = <<>>
    /\ text = <<>>
    /\ pieces = <<>>

\* the first search of the query
Search ==
    /\ candidates = <<>>
    /\ candidates' = <<search(corpus, TopK, threshold)>>
    /\ UNCHANGED <<corpus, threshold, previous>>

\* the same query on the same corpus with a higher threshold
SearchAbove ==
    /\ candidates # <<>>
    /\ \E t \in Thresholds :
          /\ t > threshold
          /\ threshold' = t
          /\ candidates' = <<search(corpus, TopK, t)>>
    /\ previous' = candidates
    /\ UNCHANGED corpus

NextSearch ==
    (Search \/ SearchAbove)
        /\ UNCHANGED <<citeVars, appVars, queryVars, clientVars, chunkVars,
                       variant>>

SpecSearch == InitSearch /\ [][NextSearch]_vars

----------------------------------------------------------------------------
(* Chunker: RecursiveCharacterTextSplitter(chunk_size, chunk_overlap,      *)
(* separators = ["\n\n", "\n", " ", ""])                                    *)

Separators == << <<"\n", "\n">>, <<"\n">>, <<" ">>, <<>> >>

TextChars == {"a", "b", " ", "\n"}

Texts == UNION {[1..n -> TextChars] : n \in 0..MaxText}

\* sep occurs in s at index i
OccursAt(s, sep, i) ==
    i + Len(sep) - 1 <= Len(s) /\ SubSeq(s, i, i + Len(sep) - 1) = sep

Occurs(s, sep) == \E i \in 1..Len(s) : OccursAt(s, sep, i)

\* the first index > i at which sep occurs (Len(s) + 1 when none)
RECURSIVE NextCut(_, _, _)
NextCut(s, sep, i) ==
    IF i >= Len(s) THEN Len(s) + 1
    ELSE IF OccursAt(s, sep, i + 1) THEN i + 1
    ELSE NextCut(s, sep, i + 1)

\* s split on sep from index i on; a separator opens the part after it
RECURSIVE SplitOn(_, _, _)
SplitOn(s, sep, i) ==
    IF i > Len(s) THEN <<>>
    ELSE <<SubSeq(s, i, NextCut(s, sep, i + Len(sep) - 1) - 1)>>
             \o SplitOn(s, sep, NextCut(s, sep, i + Len(sep) - 1))

\* a last separator that splits nothing
Characters_whole(s) == <<s>>

\* the separator "": one part per character
Characters(s) == [i \in 1..Len(s) |-> <<s[i]>>]

RECURSIVE Flatten(_)
Flatten(seqs) ==
    IF seqs = <<>> THEN <<>> ELSE Head(seqs) \o Flatten(Tail(seqs))

\* the parts of s, each of at most maxLen characters: s itself when it is
\* short enough, else s split on the first separator from the n-th on that
\* occurs in it, a part that is still too long split again on the next ones
RECURSIVE Parts(_, _, _)
Parts(s, n, maxLen) ==
    IF s = <<>> THEN <<>>
    ELSE IF Len(s) <= maxLen THEN <<s>>
    ELSE IF Separators[n] = <<>> THEN Characters(s)
    ELSE IF ~Occurs(s, Separators[n]) THEN Parts(s, n + 1, maxLen)
    ELSE Flatten([j \in 1..Len(SplitOn(s, Separators[n], 1)) |->
                     Parts(SplitOn(s, Separators[n], 1)[j], n + 1, maxLen)])

TotalLen(parts) == Len(Flatten(parts))

\* the parts at the end of a finished chunk that open the next one: at most
\* overlap characters, and few enough for the next part to fit
RECURSIVE KeepTail(_, _, _, _)
KeepTail(cur, part, maxLen, overlap) ==
    IF cur # <<>> /\ (\/ TotalLen(cur) > overlap
                      \/ TotalLen(cur) + Len(part) > maxLen)
    THEN KeepTail(Tail(cur), part, maxLen, overlap)
    ELSE cur

\* the parts merged into chunks of at most maxLen characters
RECURSIVE Merge(_, _, _, _, _)
Merge(parts, cur, out, maxLen, overlap) ==
    IF parts = <<>>
    THEN IF cur = <<>> THEN out ELSE Append(out, Flatten(cur))
    ELSE IF cur = <<>> \/ TotalLen(cur) + Len(Head(parts)) <= maxLen
    THEN Merge(Tail(parts), Append(cur, Head(parts)), out, maxLen, overlap)
    ELSE Merge(parts, KeepTail(cur, Head(parts), maxLen, overlap),
               Append(out, Flatten(cur)), maxLen, overlap)

chunk(s, maxLen, overlap) == Merge(Parts(s, 1, maxLen), <<>>, <<>>, maxLen, overlap)

InitChunk ==
    /\ sources = <<>>
    /\ idx = 0
    /\ grouped = <<>>
    /\ parsed = <<>>
    /\ pc = "rendered"
    /\ display = <<>>
    /\ AppMounted
    /\ NoQuery
    /\ geminiAvailable = TRUE
    /\ ClientMounted
    /\ stored = <<>>
    /\ corpus = <<>>
    /\ threshold = 0
    /\ candidates = <<>>
    /\ previous = <<>>
    /\ text \in Texts
    /\ pieces = <<>>

\* chunk(text): pieces holds the returned sequence
Chunk ==
    /\ pieces = <<>>
    /\ pieces' = <<chunk(text, MaxLen, Overlap)>>
    /\ UNCHANGED text

NextChunk ==
    Chunk /\ UNCHANGED <<citeVars, appVars, queryVars, clientVars, searchVars,
                         variant>>

SpecChunk == InitChunk /\ [][NextChunk]_vars

----------------------------------------------------------------------------
(* Citation grouping: properties *)

Range(f) == {f[i] : i \in DOMAIN f}

\* the shape a citation of the model was built from
ShapeOf == [raw \in RawCitations |-> CHOOSE sh \in CitationShapes : Raw(sh) = raw]

\* the distinct elements of a sequence in the order of first appearance
RECURSIVE FirstAppearance(_)
FirstAppearance(q) ==
    IF q = <<>> THEN <<>>
    ELSE LET front == FirstAppearance(SubSeq(q, 1, Len(q) - 1))
             last  == q[Len(q)]
         IN  IF last \in Range(front) THEN front ELSE Append(front, last)

CleanedFilenames == [j \in 1..Len(sources) |-> ParsedCitation[sources[j]].filename]

\* the page numbers the message cites for a cleaned filename
CitedPageNumbers(filename) ==
    {Number(ParsedCitation[sources[j]].page) :
        j \in {i \in 1..Len(sources) :
                  /\ ParsedCitation[sources[i]].filename = filename
                  /\ ParsedCitation[sources[i]].page # NoPage}}

\* C1: grouping the raw citations of a message yields exactly one entry per
\* distinct cleaned filename, and the pages of that entry are exactly the
\* page numbers cited for that filename (none when no page was cited).
C1_OneEntryPerFilename ==
    /\ pc # "threw"
    /\ pc = "rendered" =>
          /\ {display[i].filename : i \in 1..Len(display)} = Range(CleanedFilenames)
          /\ Len(display) = Cardinality(Range(CleanedFilenames))
          /\ \A i \in 1..Len(display) :
                {Number(pg) : pg \in Range(display[i].pages)}
                    = CitedPageNumbers(display[i].filename)

\* C2: every displayed page list is in strictly increasing numeric order, no
\* page number twice, whatever the order, multiplicity and digit spelling of
\* the citations.
C2_PagesStrictlyIncreasing ==
    pc = "rendered" =>
        \A i \in 1..Len(display) :
            \A a, b \in 1..Len(display[i].pages) :
                a < b => Number(display[i].pages[a]) < Number(display[i].pages[b])

\* position of the first citation of the message with this cleaned filename
FirstCited(filename) ==
    Min({j \in 1..Len(sources) : CleanedFilenames[j] = filename})

\* C3: the cards are displayed in the order in which their cleaned filenames
\* first appear in the raw citation sequence.
C3_FirstAppearanceOrder ==
    pc = "rendered" =>
        \A a, b \in 1..Len(display) :
            a < b => FirstCited(display[a].filename) < FirstCited(display[b].filename)

\* C4: a citation that ends with a page indicator "Page N" (after a comma, in
\* parentheses, or bare) is parsed to the name before the indicator and to
\* the page N, so the three spellings of one (name, N) give the same pair.
C4_PageIndicatorParsed ==
    \A j \in 1..Len(parsed) :
        LET sh == ShapeOf[sources[j]]
        IN  sh.form \in PageForms =>
                /\ parsed[j].filename = sh.name
                /\ parsed[j].page = sh.digits

C4_Witness ==
    /\ idx = 3
    /\ pc = "grouping"
    /\ ShapeOf[sources[1]].form = "comma"
    /\ ShapeOf[sources[2]] = [ShapeOf[sources[1]] EXCEPT !.form = "paren"]
    /\ ShapeOf[sources[3]] = [ShapeOf[sources[1]] EXCEPT !.form = "bare"]
    /\ Len(grouped) = 1
    /\ grouped[1].filename = ShapeOf[sources[1]].name
    /\ grouped[1].pages = <<ShapeOf[sources[1]].digits>>

\* two citations built alike except for the directory prefix
DifferOnlyInDir(sh1, sh2) ==
    /\ sh1.dir # sh2.dir
    /\ sh1.name = sh2.name
    /\ sh1.form = sh2.form
    /\ sh1.digits = sh2.digits

NoSeparator(filename) == \A i \in 1..Len(filename) : filename[i] \notin PathSeparators

KeysAreBaseNames ==
    /\ \A j \in 1..Len(parsed) : NoSeparator(parsed[j].filename)
    /\ \A i \in 1..Len(grouped) : NoSeparator(grouped[i].filename)
    /\ \A i \in 1..Len(display) : NoSeparator(display[i].filename)

\* C5 as stated: every key is a base filename without '/' or '\', and two
\* citations that differ only in a directory prefix get the same entry.
C5_DirPrefixAlwaysMerged ==
    /\ KeysAreBaseNames
    /\ \A i, j \in 1..Len(parsed) :
          DifferOnlyInDir(ShapeOf[sources[i]], ShapeOf[sources[j]]) =>
              parsed[i].filename = parsed[j].filename

\* C5, amended: every key is a base filename without '/' or '\'; two
\* citations that differ only in a directory prefix get the same key when
\* the base filename does not begin with white space and either a page
\* indicator follows it or no prefix contains a comma; no key has two
\* entries.
C5_DirPrefixMerged ==
    /\ KeysAreBaseNames
    /\ \A i, j \in 1..Len(grouped) :
          grouped[i].filename = grouped[j].filename => i = j
    /\ \A i, j \in 1..Len(parsed) :
          LET sh1 == ShapeOf[sources[i]]
              sh2 == ShapeOf[sources[j]]
          IN  (/\ DifferOnlyInDir(sh1, sh2)
               /\ sh1.name # <<>>
               /\ sh1.name[1] \notin WhiteSpace
               /\ \/ sh1.form \in PageForms
                  \/ ~Includes(sh1.dir \o sh2.dir, {","})) =>
                  parsed[i].filename = parsed[j].filename

C5_Witness ==
    /\ pc = "rendered"
    /\ Len(sources) = 3
    /\ ShapeOf[sources[1]] = Shape(UpDir, NotesTxt, "none", <<>>)
    /\ ShapeOf[sources[2]] = Shape(NoDir, NotesTxt, "none", <<>>)
    /\ ShapeOf[sources[3]] = Shape(DocsDir, ReportPdf, "comma", <<"1">>)
    /\ Len(display) = 2
    /\ display[1].filename = NotesTxt
    /\ display[2].filename = ReportPdf

\* the text of t left of its first comma (all of t when it has none)
LeftOfFirstComma(t) ==
    LET k == CHOOSE n \in 0..Len(t) :
                 /\ \A i \in 1..n : t[i] # ","
                 /\ (n = Len(t) \/ t[n + 1] = ",")
    IN  SubSeq(t, 1, k)

\* the part of t after its last path separator (all of t when it has none)
BaseNameOf(t) ==
    LET k == CHOOSE n \in 0..Len(t) :
                 /\ \A i \in (n + 1)..Len(t) : t[i] \notin PathSeparators
                 /\ (n = 0 \/ t[n] \in PathSeparators)
    IN  SubSeq(t, k + 1, Len(t))

\* what C6 expects of each citation without page indicator
ExpectedNoIndicatorName ==
    [sh \in {x \in CitationShapes : x.form \notin PageForms} |->
        BaseNameOf(Trim(LeftOfFirstComma(
            sh.dir \o sh.name \o TailOf(sh.form, sh.digits))))]

\* the pages that the page-carrying citations processed so far cite for a key
PagesCitedSoFar(filename) ==
    {ShapeOf[sources[j]].digits :
        j \in {i \in 1..Len(parsed) :
                  /\ ShapeOf[sources[i]].form \in PageForms
                  /\ parsed[i].filename = filename}}

\* C6: a citation without trailing page indicator is parsed to the text left
\* of its first comma (all of it when there is no comma; of that, the base
\* filename) and to no page, and adds no page to any entry.
C6_NoIndicatorParsed ==
    /\ \A j \in 1..Len(parsed) :
          LET sh == ShapeOf[sources[j]]
          IN  sh.form \notin PageForms =>
                  /\ parsed[j].page = NoPage
                  /\ parsed[j].filename = ExpectedNoIndicatorName[sh]
    /\ \A i \in 1..Len(grouped) :
          Range(grouped[i].pages) \subseteq PagesCitedSoFar(grouped[i].filename)

C6_Witness ==
    /\ pc = "rendered"
    /\ Len(sources) = 3
    /\ ShapeOf[sources[1]] = Shape(NoDir, NotesTxt, "comma", <<"1">>)
    /\ ShapeOf[sources[2]] = Shape(NoDir, NotesTxt, "note", <<>>)
    /\ ShapeOf[sources[3]] = Shape(CommaDir, NotesTxt, "none", <<>>)
    /\ Len(display) = 2
    /\ display[1].filename = NotesTxt
    /\ display[1].pages = << <<"1">> >>
    /\ display[2].filename = <<"a">>
    /\ display[2].pages = <<>>

----------------------------------------------------------------------------
(* Query pipeline: properties *)

Outcomes == [k \in 1..Len(attempts) |-> attempts[k].outcome]

\* the providers the query can use, in the configured order
ConfiguredProviders == {i \in 1..Len(Providers) : Available(i)}

Failed(i) ==
    \E k \in 1..Len(attempts) :
        attempts[k].index = i /\ attempts[k].outcome = "failed"

AnswerMessages ==
    {k \in 1..Len(messages) :
        messages[k].role = "assistant" /\ messages[k].kind = "answer"}

\* the latest query was a chat request of the client, and it has settled (a
\* request to the streaming endpoint starts with a thinking event)
ChatSettled == queries > 0 /\ events = <<>> /\ endpoint = "none"

\* C7: providers are tried in the configured order; the query returns the
\* result of the first provider that succeeds; AllProvidersFailed is raised
\* exactly when every provider has failed; with [A fails, B succeeds] A is
\* called once, then B once, and B's result is returned.
C7_OrderedFallback ==
    /\ \A k \in 1..Len(attempts) :
          /\ attempts[k].index \in ConfiguredProviders
          /\ \A i \in ConfiguredProviders :
                i < attempts[k].index => \E m \in 1..(k - 1) : attempts[m].index = i
    /\ result \notin {"none", AllProvidersFailed} =>
          /\ attempts # <<>>
          /\ attempts[Len(attempts)].outcome = "ok"
          /\ attempts[Len(attempts)].provider = result
          /\ \A k \in 1..(Len(attempts) - 1) : attempts[k].outcome = "failed"
    /\ (result = AllProvidersFailed) <=> (\A i \in ConfiguredProviders : Failed(i))
    /\ Outcomes = <<"failed", "ok">> =>
          /\ [k \in 1..2 |-> attempts[k].provider] = Providers
          /\ result = Providers[2]
    /\ ChatSettled =>
          IF result = AllProvidersFailed
          THEN messages[Len(messages)].kind = "error"
          ELSE /\ messages[Len(messages)].kind = "answer"
               /\ messages[Len(messages)].provider = result

C7_Witness ==
    /\ Outcomes = <<"failed", "ok">>
    /\ result = "openrouter"
    /\ endpoint = "none"
    /\ messages[Len(messages)].role = "assistant"
    /\ messages[Len(messages)].kind = "answer"
    /\ messages[Len(messages)].provider = "openrouter"
    /\ messages[Len(messages)].increments = increments

\* C8: within one query no provider is attempted more than once, and none is
\* attempted after an earlier one has succeeded: fallback only moves on to
\* the next provider of the list.
C8_NoRetry ==
    /\ \A k, m \in 1..Len(attempts) :
          k < m => /\ attempts[k].index < attempts[m].index
                   /\ attempts[k].outcome # "ok"
    /\ Len(attempts) <= Len(Providers)

C8_Witness ==
    /\ Len(attempts) = 2
    /\ attempts[1].provider = "gemini"
    /\ attempts[1].outcome = "failed"
    /\ attempts[2].provider = "openrouter"
    /\ attempts[2].outcome = "failed"
    /\ result = AllProvidersFailed

EventTypes == [k \in 1..Len(events) |-> events[k].type]

\* thinking, sources, the increments in order, done
FullStream(n) ==
    <<"thinking", "sources">> \o [k \in 1..n |-> "answer"] \o <<"done">>

EventsInOrder ==
    /\ \E n \in 0..MaxIncrements :
          /\ Len(events) <= n + 3
          /\ EventTypes = SubSeq(FullStream(n), 1, Len(events))
          /\ HasEvent("done") => n = increments
    /\ \A k \in AnswerEvents : events[k].chunk = k - 2

\* C9: a query is delivered as an ordered, finite event sequence: one sources
\* event before the first text increment, the increments in order, one done
\* event and nothing after it; the answer the client shows is made of the
\* increments that have arrived.
C9_StreamedToClient ==
    /\ EventsInOrder
    /\ \A k \in AnswerMessages :
          k = Len(messages) =>
              /\ Cardinality(AnswerEvents) = messages[k].increments
              /\ HasEvent("done")

\* C10: retrieval completes before context assembly starts, context assembly
\* completes before the first provider attempt starts, and no two provider
\* calls of the query are in progress at once.
C10_StagesInOrder ==
    /\ assembly # "none" => retrieval = "done"
    /\ attempts # <<>> => assembly = "done"
    /\ Cardinality(Calling) <= 1

C10_Witness ==
    /\ retrieval = "done"
    /\ assembly = "done"
    /\ Len(attempts) = 2
    /\ attempts[1].outcome = "failed"
    /\ Calling = {2}

----------------------------------------------------------------------------
(* Retrieval: properties *)

\* C11: for a fixed corpus, query and threshold t, search returns no
\* candidate whose similarity 1/(1+distance) is below t, and a search with a
\* raised threshold never returns more candidates than the one before it.
C11_ThresholdFilters ==
    /\ candidates # <<>> =>
          \A r \in 1..Len(candidates[1]) :
              LET d == corpus[candidates[1][r].segment]
              IN  \* 1/(1 + d/2) >= threshold/10
                  /\ 2 * 10 >= threshold * (2 + d)
                  /\ candidates[1][r].similarity = [num |-> 2, den |-> 2 + d]
    /\ previous # <<>> => Len(candidates[1]) <= Len(previous[1])

C11_Witness ==
    /\ previous # <<>>
    /\ Len(previous[1]) = 2
    /\ Len(candidates[1]) = 1
    /\ threshold = 3
    /\ \E i \in 1..Len(corpus) : 2 * 10 < threshold * (2 + corpus[i])

----------------------------------------------------------------------------
(* Chunker: properties *)

----------------------------------------------------------------------------
(* Chat form, history and chat errors: properties *)

\* a step that sends a chat request
ChatRequestSent == endpoint' = "/chat" /\ queries' = queries + 1

\* C13: while the displayed document list is empty the question input and
\* the submit control are disabled and the warning is shown, and no step
\* taken from such a state sends a chat request.
C13_NoChatWithoutDocuments ==
    /\ [](Len(files) = 0 => TextareaDisabled /\ SubmitDisabled /\ WarningShown)
    /\ [][ChatRequestSent => Len(files) # 0]_vars

\* a question is typed, then the list is cleared: only the missing
\* documents keep the question from being sent
C13_Witness ==
    /\ Len(files) = 0
    /\ Trim(input) # <<>>
    /\ ~isThinking
    /\ endpoint = "none"
    /\ queries < MaxQueries
    /\ alerted = Alert("Knowledge base cleared successfully.", <<>>)

\* what a message displays: its properties, sources read as undefined when
\* the message has none
Shown(msg) ==
    [f \in DOMAIN msg \cup {"sources"} |->
        IF f \in DOMAIN msg THEN msg[f] ELSE Undefined]

ShownList(msgs) == [i \in 1..Len(msgs) |-> Shown(msgs[i])]

C15_QuestionBounded ==
    [][ChatRequestSent =>
          /\ Trim(input) # <<>>
          /\ Len(input) <= QuestionLimit]_vars

\* the error text C16 expects for each failure
ExpectedErrorText(error) ==
    CASE ~error.response /\ error.request ->
             "**Connection Error**: Cannot reach the server. Please check if the backend is running on port 8000."
      [] ~error.response /\ ~error.request ->
             "**Error**: Something went wrong. "
      [] error.response /\ error.status = 429 ->
             "**Rate Limit**: You're asking too many questions! Please wait a minute and try again."
      [] error.response /\ error.status = 500 ->
             "**Server Error**: The AI encountered an issue. Please try rephrasing your question or contact support."
      [] error.response /\ error.status = 400 ->
             IF error.detail \in {<<"Q", "u", "e", "s", "t", "i", "o", "n", " ", "t", "o", "o", " ", "l", "o", "n", "g">>, <<"e", "m", "p", "t", "y", " ", "o", "r", " ", "t", "o", "o", " ", "l", "o", "n", "g">>}
             THEN "**Question Too Long**: Please keep your question under 500 characters."
             ELSE IF error.detail = <<"Q", "u", "e", "s", "t", "i", "o", "n", " ", "i", "s", " ", "e", "m", "p", "t", "y">>
             THEN "**Empty Question**: Please type a question first."
             ELSE "**Invalid Request**: ${detail}"
      [] OTHER ->
             IF error.detail = <<>> THEN "**Error**: Unknown error occurred"
             ELSE "**Error**: ${detail}"

\* a step in which the chat request in flight fails
ChatRequestFails ==
    /\ endpoint = "/chat"
    /\ result \in {"none", AllProvidersFailed}
    /\ endpoint' = "none"
    /\ Len(messages') = Len(messages) + 1

\* C16: a failed chat request is not retried and yields no answer: it
\* appends one assistant message that carries the error text chosen from the
\* failure and no sources.
C16_FailureShownOnce ==
    [][ChatRequestFails =>
          /\ queries' = queries
          /\ isThinking' = FALSE
          /\ \E error \in RefusalErrors \cup GenerationErrors :
                LET msg == messages'[Len(messages')]
                IN  /\ messages' = Append(messages, msg)
                    /\ msg.role = "assistant"
                    /\ msg.kind = "error"
                    /\ msg.text = ExpectedErrorText(error)
                    /\ msg.content =
                          IF msg.text \in {"**Invalid Request**: ${detail}",
                                           "**Error**: ${detail}"}
                          THEN error.detail ELSE <<>>
                    /\ DOMAIN msg = {"role", "kind", "text", "content"}]_vars

C16_Witness ==
    /\ queries = MaxQueries
    /\ endpoint = "none"
    /\ ~isThinking
    /\ Len(messages) >= 5
    /\ messages[3].kind = "error"
    /\ messages[3].text = "**Question Too Long**: Please keep your question under 500 characters."
    /\ messages[5].kind = "error"
    /\ messages[5].text = "**Connection Error**: Cannot reach the server. Please check if the backend is running on port 8000."

----------------------------------------------------------------------------
(* Documents: properties *)

\* a step in which the k-th request in flight, an upload, is settled
UploadSettles(k) ==
    /\ pending[k].kind = "upload"
    /\ pending' = Append(Remove(pending, k), Timer)

\* no load of the document list is in flight after the step
NoFetchToCome == \A j \in 1..Len(pending') : pending'[j] # DocumentsRequest

\* C17: the files of a batch of which the server rejects one are still
\* ingested and become visible: when the upload of such a batch is settled
\* and no load of the list is still in flight, every other file of the
\* batch the server accepts is in the store and in the displayed list.
C17_BatchVisible ==
    [][\A k \in 1..Len(pending) :
          (/\ UploadSettles(k)
           /\ FirstRejection(pending[k].batch, stored) # 0
           /\ stored' = Ingest(pending[k].batch, stored)
           /\ NoFetchToCome) =>
              /\ Range(Ingest(pending[k].batch, stored)) \subseteq Range(stored')
              /\ Range(stored') \ Range(stored) \subseteq Range(files')]_vars

\* the alerts of a failed upload
UploadAlerts ==
    {Alert("File too large! Maximum size is 10MB per file.", <<>>),
     Alert("Too many uploads. Please wait a minute and try again.", <<>>),
     Alert("Invalid file. Please check the file type and try again.", <<>>),
     Alert("Upload failed: Unknown error", <<>>),
     Alert("Cannot reach server. Please check if the backend is running.", <<>>),
     Alert("Failed to upload files. ", <<>>)}
        \cup {Alert(dialog, error.detail) :
                 dialog \in {"Duplicate File: ${detail}", "${detail}",
                             "Upload failed: ${detail}"},
                 error \in RequestErrors \cup {Response(409, <<"d", "u", "p">>)}}

\* C18: an upload that the server rejects, or that fails otherwise, raises
\* an error alert, sets uploadStatus to 'error' and leaves the displayed
\* document list unchanged; only an upload without a rejected file succeeds.
C18_RejectedUpload ==
    [][\A k \in 1..Len(pending) :
          UploadSettles(k) =>
              \/ /\ FirstRejection(pending[k].batch, stored) = 0
                 /\ uploadStatus' = "success"
              \/ /\ uploadStatus' = "error"
                 /\ alerted' \in UploadAlerts
                 /\ files' = files]_vars

\* a batch with a file too large has been rejected
C18_Witness ==
    /\ uploadStatus = "error"
    /\ alerted = Alert("File too large! Maximum size is 10MB per file.", <<>>)
    /\ pending = <<Timer>>
    /\ files = <<"a.pdf">>
    /\ stored = <<"a.pdf", "b.pdf">>

\* the page is not reloaded by the step
NotReloaded == alerted' # NoAlert

\* a step in which the k-th request in flight, of the kind, is settled
Settles(k, kind) ==
    /\ pending[k].kind = kind
    /\ pending' = Remove(pending, k)
    /\ NotReloaded

\* a step in which the dialog is raised, from the handler that goes on to
\* send a request of the kind when the dialog is confirmed
Asked(dialog, kind) ==
    /\ alerted'.dialog = dialog
    /\ \/ alerted' # alerted
       \/ /\ Len(pending') = Len(pending) + 1
          /\ pending'[Len(pending')].kind = kind

\* q is p without the entries equal to filename, the others in their order
IsWithout(q, p, filename) ==
    LET keep == {i \in 1..Len(p) : p[i] # filename}
    IN  /\ Len(q) = Cardinality(keep)
        /\ \A j \in 1..Len(q) :
              q[j] = p[CHOOSE i \in keep :
                           Cardinality({m \in keep : m < i}) = j - 1]

C20_ClearIdempotent ==
    [][/\ \A k \in 1..Len(pending) :
             Settles(k, "clear") =>
                 IF alerted' = Alert("Knowledge base cleared successfully.", <<>>)
                 THEN files' = <<>> /\ stored' = <<>>
                 ELSE files' = files
       /\ Asked("This will delete ALL uploaded documents and search index. Are you sure?", "clear") =>
             files' = files]_vars

\* a clear has succeeded and another clear request is in flight
C20_Witness ==
    /\ files = <<>>
    /\ stored = <<>>
    /\ alerted = Alert("Knowledge base cleared successfully.", <<>>)
    /\ pending = <<Request("clear", <<>>, "")>>

----------------------------------------------------------------------------
(* Chat requests and conversations: properties *)

\* C21: at most one chat request is in flight: a request in flight keeps
\* isThinking true, a chat request is sent only while none is in flight, and
\* no step taken while isThinking is true or the input is blank sends one.
C21_OneChatInFlight ==
    /\ [](endpoint = "/chat" => isThinking)
    /\ [][ChatRequestSent => endpoint = "none"]_vars
    /\ [][isThinking \/ Trim(input) = <<>> => ~ChatRequestSent]_vars

\* Enter is pressed on a blank input after an earlier request has settled
C21_Witness ==
    /\ CanSubmit
    /\ ~isThinking
    /\ input = <<" ">>
    /\ queries >= 1
    /\ endpoint = "none"

\* a step in which the chat request in flight settles, on the page that
\* sent it
ChatRequestSettles ==
    /\ endpoint = "/chat"
    /\ endpoint' = "none"
    /\ pending' = pending

\* C22: an accepted submit appends exactly one user message, the question,
\* in the step that sends the request; the step in which the request
\* settles, with a response or an error, appends exactly one assistant
\* message and leaves isThinking false; no other step appends a message.
C22_OneReplyPerSubmit ==
    /\ [][ChatRequestSent =>
             /\ messages' = Append(messages,
                    [role |-> "user", kind |-> "question", content |-> input])
             /\ isThinking']_vars
    /\ [][ChatRequestSettles =>
             /\ Len(messages') = Len(messages) + 1
             /\ SubSeq(messages', 1, Len(messages)) = messages
             /\ messages'[Len(messages')].role = "assistant"
             /\ messages'[Len(messages')].kind \in {"answer", "error"}
             /\ ~isThinking']_vars
    /\ [][Len(messages') > Len(messages) =>
             ChatRequestSent \/ ChatRequestSettles]_vars

\* two submits have settled, the first with an answer, the second with an
\* error
C22_Witness ==
    /\ Len(messages) = 5
    /\ messages[2].role = "user"
    /\ messages[3].kind = "answer"
    /\ messages[4].role = "user"
    /\ messages[5].kind = "error"
    /\ ~isThinking
    /\ endpoint = "none"

\* C23: the message list holds no reply to a request of an earlier
\* conversation: every answer and every error message comes right after the
\* user message it replies to.
C23_NoReplyFromBefore ==
    \A i \in 1..Len(messages) :
        messages[i].kind \in {"answer", "error"} =>
            i > 1 /\ messages[i - 1].role = "user"

\* C24: the step of New Conversation, with the effects it triggers, leaves
\* no saved chat history in local storage, so that a reload starts from the
\* welcome message.
C24_NoHistoryAfterNew ==
    [][messages # <<>> /\ messages' = <<>> =>
          /\ chatHistory' = NoItem
          /\ Loaded(chatHistory') = <<WelcomeMessage>>]_vars

----------------------------------------------------------------------------
(* Uploads in the three Apps *)

\* part_000 is the App of the other sections; part_001 and react-ui are the
\* earlier Apps, which keep their own list and load nothing on mount
Variants == {"part_000", "part_001", "react-ui"}

\* selectedFiles.map(f => f.name)
Names(batch) == [i \in 1..Len(batch) |-> batch[i].name]

InitUpload ==
    /\ sources = <<>>
    /\ idx = 0
    /\ grouped = <<>>
    /\ parsed = <<>>
    /\ pc = "rendered"
    /\ display = <<>>
    /\ AppMounted
    /\ NoQuery
    /\ geminiAvailable = TRUE
    /\ variant \in Variants
    /\ chatHistory = IF variant = "part_000" THEN <<Stringify(messages)>>
                     ELSE NoItem
    /\ uploadStatus = "idle"
    /\ filesLoading = (variant = "part_000")
    /\ alerted = NoAlert
    /\ pending = IF variant = "part_000" THEN <<DocumentsRequest>> ELSE <<>>
    /\ stored \in InitialStores
    /\ corpus = <<>>
    /\ threshold = 0
    /\ candidates = <<>>
    /\ previous = <<>>
    /\ text = <<>>
    /\ pieces = <<>>

\* part_001 and react-ui, handleFileUpload after the await: the names of the
\* selection are appended, setUploadStatus('success'), the timer is set
UploadDone ==
    /\ variant # "part_000"
    /\ \E k \in 1..Len(pending) :
          /\ pending[k].kind = "upload"
          /\ FirstRejection(pending[k].batch, stored) = 0
          /\ stored' = Ingest(pending[k].batch, stored)
          /\ files' = files \o Names(pending[k].batch)
          /\ pending' = Append(Remove(pending, k), Timer)
    /\ uploadStatus' = "success"
    /\ UNCHANGED <<citeVars, chatVars, queryVars, filesLoading, alerted,
                   coreVars>>

\* part_001 and react-ui, the catch of handleFileUpload:
\* setUploadStatus('error') and nothing else
UploadFailed ==
    /\ variant # "part_000"
    /\ \E k \in 1..Len(pending) :
          /\ pending[k].kind = "upload"
          /\ \E error \in UploadErrors(pending[k].batch, stored) :
                stored' = IF error \in RequestErrors THEN stored
                          ELSE Ingest(pending[k].batch, stored)
          /\ pending' = Remove(pending, k)
    /\ uploadStatus' = "error"
    /\ UNCHANGED <<citeVars, appVars, queryVars, chatHistory, filesLoading,
                   alerted, coreVars>>

NextUpload ==
    \/ FetchDocumentsDone
    \/ FetchDocumentsFails
    \/ SelectFiles
    \/ variant = "part_000" /\ UploadResolve
    \/ variant = "part_000" /\ UploadReject
    \/ UploadDone
    \/ UploadFailed
    \/ TimerFires

\* a timer that is set fires
SpecUpload == InitUpload /\ [][NextUpload]_vars /\ WF_vars(TimerFires)

----------------------------------------------------------------------------
(* Document list: responses that arrive after they were made *)

\* the response of GET /documents on its way to the client:
\* res.data.documents as the server read them
Answer(kind, documents) ==
    [kind |-> kind, batch |-> <<>>, filename |-> "", documents |-> documents]

\* GET /documents sent by the fetchDocuments that handleFileUpload awaits
RefreshRequest == Request("refresh", <<>>, "")

\* server: GET /documents is answered from the store as it is now
DocumentsAnswered ==
    /\ \E k \in 1..Len(pending) :
          /\ pending[k].kind \in {"documents", "refresh"}
          /\ pending' = [pending EXCEPT ![k] =
                 Answer(IF pending[k].kind = "documents" THEN "listing"
                        ELSE "refreshed", stored)]
    /\ UNCHANGED <<citeVars, appVars, queryVars, chatHistory, uploadStatus,
                   filesLoading, alerted, stored, coreVars>>

\* fetchDocuments after the await: setFiles(res.data.documents || []);
\* finally setFilesLoading(false)
ListingDelivered ==
    /\ \E k \in 1..Len(pending) :
          /\ pending[k].kind = "listing"
          /\ files' = pending[k].documents
          /\ pending' = Remove(pending, k)
    /\ filesLoading' = FALSE
    /\ UNCHANGED <<citeVars, chatVars, queryVars, uploadStatus, alerted,
                   stored, coreVars>>

\* handleFileUpload after the await of the POST, every file accepted:
\* fetchDocuments() starts, setFilesLoading(true)
UploadAccepted ==
    /\ \E k \in 1..Len(pending) :
          /\ pending[k].kind = "upload"
          /\ FirstRejection(pending[k].batch, stored) = 0
          /\ stored' = Ingest(pending[k].batch, stored)
          /\ pending' = [pending EXCEPT ![k] = RefreshRequest]
    /\ filesLoading' = TRUE
    /\ UNCHANGED <<citeVars, appVars, queryVars, chatHistory, uploadStatus,
                   alerted, coreVars>>

\* handleFileUpload after await fetchDocuments(): the list is set, or left
\* by the catch of fetchDocuments; setUploadStatus('success'), the timer
RefreshDelivered ==
    /\ \E k \in 1..Len(pending) :
          /\ \/ /\ pending[k].kind = "refreshed"
                /\ files' = pending[k].documents
             \/ /\ pending[k].kind = "refresh"
                /\ files' = files
          /\ pending' = Append(Remove(pending, k), Timer)
    /\ filesLoading' = FALSE
    /\ uploadStatus' = "success"
    /\ UNCHANGED <<citeVars, chatVars, queryVars, alerted, stored, coreVars>>

\* the requests of the document handlers, each of which succeeds
NextRace ==
    \/ DocumentsAnswered
    \/ ListingDelivered
    \/ SelectFiles
    \/ UploadAccepted
    \/ RefreshDelivered
    \/ TimerFires
    \/ DeleteFile
    \/ DeleteResolve
    \/ ClearDatabase
    \/ ClearResolve

SpecRace == InitDocs /\ [][NextRace]_vars

----------------------------------------------------------------------------
(* Upload status and document list under concurrency: properties *)

\* C25: in every state in which an upload request is in flight,
\* uploadStatus is 'uploading'.
C25_UploadingWhileInFlight ==
    (\E k \in 1..Len(pending) : pending[k].kind = "upload") =>
        uploadStatus = "uploading"

\* an upload attempt has finished and its outcome is shown
UploadShown == uploadStatus \in {"success", "error"}

\* C26: in each App, after an upload attempt has finished, with success or
\* with a failure, uploadStatus returns to 'idle' unless the user starts
\* another upload.
C26_StatusReturnsToIdle ==
    UploadShown ~> uploadStatus \in {"idle", "uploading"}

\* in the App of part_000 the status does return to 'idle'
StatusReturnsToIdleInMain ==
    (variant = "part_000" /\ UploadShown) ~> uploadStatus = "idle"

\* C27: the displayed list shows no document that a delete or a clear has
\* removed and that was not uploaded again: the server holds every document
\* the list displays.
C27_NoRemovedShown ==
    ~filesLoading => Range(files) \subseteq Range(stored)

====
